---- MODULE Spec2Model ----
(***************************************************************************)
(* EventPool<N> and DoubleBuffer<N> of                                     *)
(* examples/object_pool_vs_double_buffer.cpp as state machines.            *)
(*                                                                         *)
(* EventPool: storage_ (the Event stored in each slot), next_ (the link    *)
(* array), head_ (first free slot, N = exhausted).  The callers' side is   *)
(* the bag `held` of outstanding handles (how many holders currently own a *)
(* pointer to each slot).                                                  *)
(*                                                                         *)
(* DoubleBuffer: buf_ (two arrays), writeIdx_, readIdx_.                   *)
(***************************************************************************)
EXTENDS Integers, Sequences, FiniteSets

\* ------------------------------------------------------------ bounds ----
\* template parameter N of EventPool<N> (the demo instantiates 16)
N == 3
\* template parameter N of DoubleBuffer<N> (the demo instantiates 128)
BufN == 2
\* largest value a caller stores in an Event field or a buffer element
MaxVal == 1
\* most handles callers keep outstanding once the pool is misused
MaxHeld == 4
\* largest sample a producer stores in a buffer element
MaxSample == 2
\* largest |v| passed to Ctx::run
MaxArg == 2
\* most Ctx::run calls made
MaxRuns == 3
\* most acquire()/release() calls each of the two threads makes
MaxCalls == 3

Slots == 0 .. (N - 1)
FieldVals == 0 .. MaxVal

VARIABLES
    head_,      \* EventPool::head_
    next_,      \* EventPool::next_
    storage_,   \* EventPool::storage_: <<e>> when the bytes of the slot hold
                \* Event e, <<>> while no Event was ever constructed there
    held,       \* held[i]: number of outstanding handles to slot i
    op,         \* the last call made on the pool
    ret,        \* what that call returned (acquire) or was given (release)
    rets,       \* results of the first acquire() calls, made before any release
    fresh,      \* no release() has been called since construction
    before,     \* what the slot handed out by the last acquire() held just
                \* before that call
    writeIdx_,  \* DoubleBuffer::writeIdx_
    readIdx_,   \* DoubleBuffer::readIdx_
    buf_,       \* DoubleBuffer::buf_
    cpc,        \* position of the thread executing commit()
    obs,        \* a second thread's writeBuf() and readBuf() calls: how many
                \* it has made (calls), the buffers they returned (w, r), and
                \* whether no index was stored between the two calls (quiet)
    dbh,        \* the single-threaded calls made on the buffer so far: the
                \* last call (call), whether the number of commits is odd
                \* (odd), the write buffer's contents at the last commit
                \* (snap, <<>> before the first), and the elements stored
                \* through writeBuf() since construction (written)
    s,          \* Ctx::s: the dynamic type of the Strategy it points to
    ph,         \* a producer and a consumer working in phases: the buffer
                \* each fetched at the start of the phase (pw, cr), how many
                \* elements each has done (pn, cn), the samples the consumer
                \* read this phase (got), the frame the producer completed
                \* in the previous phase (prev, <<>> in the first), and
                \* whether the consumer ever read the buffer being written
                \* (clash)
    thr,        \* two threads calling acquire()/release() with no lock: for
                \* each its position (pc) and its locals idx and tmp
    calls,      \* how many calls each thread has started
    overlap,    \* some statement of one thread ran while the other thread
                \* was inside a call
    runs        \* the Ctx::run calls made: the strategy assigned at the call
                \* (s), the argument (v) and the value returned (out)

poolVars == <<head_, next_, storage_, held, op, ret, rets, fresh, before>>
dbVars == <<writeIdx_, readIdx_, buf_, cpc, obs, dbh>>
stratVars == <<s, runs>>
\* the state outside the pool and the buffer
threadVars == <<thr, calls, overlap>>
extVars == <<stratVars, ph, threadVars>>
vars == <<head_, next_, storage_, held, op, ret, rets, fresh, before,
          writeIdx_, readIdx_, buf_, cpc, obs, dbh, s, runs, ph, thr, calls,
          overlap>>

\* ------------------------------------------------------------- Event ----
\* struct Event { uint32_t ts; uint8_t type; uint8_t payload[8]; }
Event == [ts : FieldVals, type : FieldVals, payload : FieldVals]

\* Event{} : value-initialization zeroes every member
DefaultEvent == [ts |-> 0, type |-> 0, payload |-> 0]

\* acquire() returns nullptr or a pointer to slot idx
NullPtr == <<>>
Handle(idx) == <<idx>>

\* ----------------------------------------------------- EventPool() ------
\* for(i=0;i<N-1;++i) next_[i]=i+1;  next_[N-1]=N;
CtorNextBadSentinel == [i \in Slots |-> IF i < N - 1 THEN i + 1 ELSE 0]
CtorNext == [i \in Slots |-> IF i < N - 1 THEN i + 1 ELSE N]

\* the constructor's loop, statement by statement, on an array of n entries
\* that all start as g: for(i=0;i<n-1;++i) f[i]=i+1;  then f[n-1]=n;
RECURSIVE CtorFill(_, _, _)
CtorFill(f, i, n) ==
    IF i < n - 1 THEN CtorFill([f EXCEPT ![i] = i + 1], i + 1, n)
    ELSE [f EXCEPT ![n - 1] = n]

CtorLoop(n, g) == CtorFill([i \in 0 .. (n - 1) |-> g], 0, n)

\* the slots reached from slot i by following next_, at most `fuel` of them
RECURSIVE Walk(_, _)
Walk(i, fuel) ==
    IF i \notin Slots \/ fuel = 0 THEN <<>>
    ELSE <<i>> \o Walk(next_[i], fuel - 1)

\* where that walk stops: N (the sentinel), an index that is no slot, or the
\* slot it would visit next when the fuel ran out
RECURSIVE WalkEnd(_, _)
WalkEnd(i, fuel) ==
    IF i \notin Slots \/ fuel = 0 THEN i
    ELSE WalkEnd(next_[i], fuel - 1)

\* the free list: the slots reached from head_ (N + 1 steps show a cycle)
FreeList == Walk(head_, N + 1)
FreeSet == {FreeList[k] : k \in 1 .. Len(FreeList)}

\* the slots some holder owns a handle to
LiveSet == {i \in Slots : held[i] > 0}

\* storage_ is left uninitialized by the constructor; no code path reads a
\* slot before acquire() has constructed an Event in it
PoolInit ==
    /\ head_ = 0
    /\ next_ = CtorNext
    /\ storage_ = [i \in Slots |-> <<>>]
    /\ held = [i \in Slots |-> 0]
    /\ op = "ctor"
    /\ ret = NullPtr
    /\ rets = <<>>
    /\ fresh = TRUE
    /\ before = <<>>

\* the first N+1 acquire() results of a pool that has seen no release
Record(r) == IF fresh /\ Len(rets) <= N THEN Append(rets, r) ELSE rets

\* -------------------------------------------------------- acquire() -----
\* acquire() that forgets to pop: head_ stays on the slot handed out
AcquireNoPop ==
    /\ op' = "acquire"
    /\ IF head_ = N
       THEN /\ ret' = NullPtr
            /\ before' = <<>>
            /\ UNCHANGED <<head_, next_, storage_, held>>
       ELSE /\ storage_' = [storage_ EXCEPT ![head_] = <<DefaultEvent>>]
            /\ held' = [held EXCEPT ![head_] = @ + 1]
            /\ ret' = Handle(head_)
            /\ before' = storage_[head_]
            /\ UNCHANGED <<head_, next_>>
    /\ rets' = Record(ret')
    /\ UNCHANGED fresh
    /\ UNCHANGED <<dbVars, extVars>>

\* acquire() with the exhaustion test off by one: if (head_ >= N-1)
AcquireOffByOne ==
    /\ op' = "acquire"
    /\ IF head_ >= N - 1
       THEN /\ ret' = NullPtr
            /\ before' = <<>>
            /\ UNCHANGED <<head_, next_, storage_, held>>
       ELSE /\ head_' = next_[head_]
            /\ storage_' = [storage_ EXCEPT ![head_] = <<DefaultEvent>>]
            /\ held' = [held EXCEPT ![head_] = @ + 1]
            /\ ret' = Handle(head_)
            /\ before' = storage_[head_]
            /\ UNCHANGED next_
    /\ rets' = Record(ret')
    /\ UNCHANGED fresh
    /\ UNCHANGED <<dbVars, extVars>>

\* acquire() without the placement new: the slot keeps its old bytes
AcquireNoConstruct ==
    /\ op' = "acquire"
    /\ IF head_ = N
       THEN /\ ret' = NullPtr
            /\ before' = <<>>
            /\ UNCHANGED <<head_, next_, storage_, held>>
       ELSE /\ head_' = next_[head_]
            /\ held' = [held EXCEPT ![head_] = @ + 1]
            /\ ret' = Handle(head_)
            /\ before' = storage_[head_]
            /\ UNCHANGED <<next_, storage_>>
    /\ rets' = Record(ret')
    /\ UNCHANGED fresh
    /\ UNCHANGED <<dbVars, extVars>>

\* if (head_ == N) return nullptr;
\* idx = head_; head_ = next_[idx]; e = new(&storage_[idx]) Event{}; return e;
Acquire ==
    /\ op' = "acquire"
    /\ IF head_ = N
       THEN /\ ret' = NullPtr
            /\ before' = <<>>
            /\ UNCHANGED <<head_, next_, storage_, held>>
       ELSE /\ head_' = next_[head_]
            /\ storage_' = [storage_ EXCEPT ![head_] = <<DefaultEvent>>]
            /\ held' = [held EXCEPT ![head_] = @ + 1]
            /\ ret' = Handle(head_)
            /\ before' = storage_[head_]
            /\ UNCHANGED next_
    /\ rets' = Record(ret')
    /\ UNCHANGED fresh
    /\ UNCHANGED <<dbVars, extVars>>

\* -------------------------------------------------------- release() -----
\* release() that sets head_ without linking the slot to the old head
ReleaseBodyNoLink(idx) ==
    /\ head_' = idx
    /\ UNCHANGED <<next_, storage_>>

\* release() with its two stores swapped: head_ = idx; next_[idx] = head_;
ReleaseBodySwapped(idx) ==
    /\ next_' = [next_ EXCEPT ![idx] = idx]
    /\ head_' = idx
    /\ UNCHANGED storage_

\* release() that appends the slot at the tail of the free list
ReleaseBodyTail(idx) ==
    /\ IF head_ = N
       THEN /\ next_' = [next_ EXCEPT ![idx] = N]
            /\ head_' = idx
       ELSE /\ next_' = [next_ EXCEPT ![FreeList[Len(FreeList)]] = idx,
                                       ![idx] = N]
            /\ UNCHANGED head_
    /\ UNCHANGED storage_

\* release() that zero-fills all of storage_ instead of leaving it alone
ReleaseBodyScrub(idx) ==
    /\ next_' = [next_ EXCEPT ![idx] = head_]
    /\ head_' = idx
    /\ storage_' = [i \in Slots |-> <<DefaultEvent>>]

\* idx = e - storage_; e->~Event(); next_[idx] = head_; head_ = idx;
\* ~Event() is trivial: the bytes of the slot stay as the holder left them.
ReleaseBody(idx) ==
    /\ next_' = [next_ EXCEPT ![idx] = head_]
    /\ head_' = idx
    /\ UNCHANGED storage_

\* release(e) of a handle the caller currently holds
Release(idx) ==
    /\ held[idx] > 0
    /\ ReleaseBody(idx)
    /\ held' = [held EXCEPT ![idx] = @ - 1]
    /\ op' = "release"
    /\ ret' = Handle(idx)
    /\ fresh' = FALSE
    /\ rets' = <<>>
    /\ before' = <<>>
    /\ UNCHANGED <<dbVars, extVars>>

\* e->type = 1 in demo(): a holder stores into the Event it was handed
WriteEvent(idx, v) ==
    /\ held[idx] > 0
    /\ storage_[idx] # <<>>
    /\ storage_' = [storage_ EXCEPT ![idx][1].type = v]
    /\ op' = "write"
    /\ ret' = Handle(idx)
    /\ UNCHANGED <<head_, next_, held, rets, fresh, before>>
    /\ UNCHANGED <<dbVars, extVars>>

\* ------------------------------------------------------ DoubleBuffer ----
\* a call on the buffer: its name, the element index and the sample it
\* stored or returned (0, 0 for a call without them)
DbCall(o, i, v) == [op |-> o, i |-> i, v |-> v]

\* buf_ declared without the {}: the arrays start with any contents
DbInitNoZero ==
    /\ writeIdx_ = 0
    /\ readIdx_ = 1
    /\ buf_ \in [0 .. 1 -> [0 .. (BufN - 1) -> 0 .. MaxSample]]
    /\ cpc = "idle"
    /\ obs = [calls |-> 0, w |-> 0, r |-> 0, quiet |-> TRUE]
    /\ dbh = [call |-> DbCall("ctor", 0, 0), odd |-> FALSE, snap |-> <<>>,
              written |-> {}]

\* std::array<uint16_t,N> buf_[2]{}; int writeIdx_ = 0; int readIdx_ = 1;
DbInit ==
    /\ writeIdx_ = 0
    /\ readIdx_ = 1
    /\ buf_ = [b \in 0 .. 1 |-> [i \in 0 .. (BufN - 1) |-> 0]]
    /\ cpc = "idle"
    /\ obs = [calls |-> 0, w |-> 0, r |-> 0, quiet |-> TRUE]
    /\ dbh = [call |-> DbCall("ctor", 0, 0), odd |-> FALSE, snap |-> <<>>,
              written |-> {}]

\* ------------------------------------------------- Strategy / Ctx -------
\* Inc::apply, DoubleS::apply
IncApply(v) == v + 1
DoubleSApply(v) == v * 2

\* s->apply(v): virtual dispatch on the dynamic type
Apply(st, v) == IF st = "Inc" THEN IncApply(v) ELSE DoubleSApply(v)

\* Inc inc; DoubleS dbl; Ctx c1(&inc);
StratInit ==
    /\ s = "Inc"
    /\ runs = <<>>

\* run() that keeps using the strategy given to the constructor
RunCtorStrategy(v) ==
    /\ Len(runs) < MaxRuns
    /\ runs' = Append(runs, [s |-> s, v |-> v, out |-> Apply("Inc", v)])
    /\ UNCHANGED s
    /\ UNCHANGED <<poolVars, dbVars, ph, threadVars>>

\* c1.run(v): return s->apply(v);
Run(v) ==
    /\ Len(runs) < MaxRuns
    /\ runs' = Append(runs, [s |-> s, v |-> v, out |-> Apply(s, v)])
    /\ UNCHANGED s
    /\ UNCHANGED <<poolVars, dbVars, ph, threadVars>>

\* c1.s = &dbl; (or back to &inc)
SetStrategy(st) ==
    /\ s' = st
    /\ UNCHANGED runs
    /\ UNCHANGED <<poolVars, dbVars, ph, threadVars>>

NextStrategy ==
    \/ \E v \in (0 - MaxArg) .. MaxArg : Run(v)
    \/ \E st \in {"Inc", "DoubleS"} : SetStrategy(st)

\* the producer holds writeBuf(), the consumer readBuf(), nothing done yet
PhaseInit ==
    ph = [pw |-> 0, cr |-> 1, pn |-> 0, cn |-> 0, got |-> <<>>,
          prev |-> <<>>, clash |-> FALSE]

\* both threads outside any call
Threads == {1, 2}
ThreadInit ==
    /\ thr = [t \in Threads |-> [pc |-> "idle", idx |-> 0, tmp |-> 0]]
    /\ calls = [t \in Threads |-> 0]
    /\ overlap = FALSE

Init == PoolInit /\ DbInit /\ StratInit /\ PhaseInit /\ ThreadInit

SpecStrategy == Init /\ [][NextStrategy]_vars

\* single-threaded use of one pool, every release given a live handle
Next ==
    \/ Acquire
    \/ \E idx \in Slots : Release(idx)
    \/ \E idx \in Slots, v \in FieldVals : WriteEvent(idx, v)

Spec == Init /\ [][Next]_vars

\* ------------------------------------------------- misuse of the pool ---
\* release(e) of a handle that acquire() once returned and that was released
\* since (a second release of it).  The code has no liveness check and runs
\* the same statements as for a live handle.
ReleaseNotLive(idx) ==
    /\ held[idx] = 0
    /\ storage_[idx] # <<>>
    /\ ReleaseBody(idx)
    /\ op' = "release"
    /\ ret' = Handle(idx)
    /\ fresh' = FALSE
    /\ rets' = <<>>
    /\ before' = <<>>
    /\ UNCHANGED held
    /\ UNCHANGED <<dbVars, extVars>>

\* release(e + 1) by the holder of the handle e to the last slot: a pointer
\* that is no slot of this pool, idx = N.  The store next_[N] = head_ is
\* outside next_; in the object's layout it lands on head_ itself, which
\* head_ = idx then overwrites.
ReleaseForeign ==
    /\ held[N - 1] > 0
    /\ head_' = N
    /\ op' = "release"
    /\ ret' = Handle(N)
    /\ fresh' = FALSE
    /\ rets' = <<>>
    /\ before' = <<>>
    /\ UNCHANGED <<next_, storage_, held>>
    /\ UNCHANGED <<dbVars, extVars>>

RECURSIVE HeldSum(_)
HeldSum(k) == IF k = 0 THEN 0 ELSE held[k - 1] + HeldSum(k - 1)

\* callers keep at most MaxHeld handles outstanding
AcquireBounded == HeldSum(N) < MaxHeld /\ Acquire

NextMisuse ==
    \/ AcquireBounded
    \/ \E idx \in Slots : Release(idx)
    \/ \E idx \in Slots, v \in FieldVals : WriteEvent(idx, v)
    \/ \E idx \in Slots : ReleaseNotLive(idx)
    \/ ReleaseForeign

SpecMisuse == Init /\ [][NextMisuse]_vars

\* ------------------------------------------------ DoubleBuffer calls ----
Samples == 0 .. MaxSample
Elems == 0 .. (BufN - 1)

\* x | 1 in place of x ^ 1
Xor1Set(x) == IF x % 2 = 0 THEN x + 1 ELSE x

\* x ^ 1 on an int
Xor1(x) == IF x % 2 = 0 THEN x + 1 ELSE x - 1

\* writeBuf() / readBuf(): which of the two arrays the returned pointer is
WriteBufIdx == writeIdx_
ReadBufIdx == readIdx_

\* a store through readBuf() in place of writeBuf()
WriteSampleReadSide(i, v) ==
    /\ cpc = "idle"
    /\ buf_' = [buf_ EXCEPT ![ReadBufIdx][i] = v]
    /\ dbh' = [dbh EXCEPT !.call = DbCall("write", i, v),
                          !.written = @ \cup {<<ReadBufIdx, i>>}]
    /\ UNCHANGED <<writeIdx_, readIdx_, cpc, obs>>
    /\ UNCHANGED <<poolVars, extVars>>

\* db.writeBuf()[i] = v
WriteSample(i, v) ==
    /\ cpc = "idle"
    /\ buf_' = [buf_ EXCEPT ![WriteBufIdx][i] = v]
    /\ dbh' = [dbh EXCEPT !.call = DbCall("write", i, v),
                          !.written = @ \cup {<<WriteBufIdx, i>>}]
    /\ UNCHANGED <<writeIdx_, readIdx_, cpc, obs>>
    /\ UNCHANGED <<poolVars, extVars>>

\* commit() that toggles readIdx_ only
CommitHalf ==
    /\ readIdx_' = Xor1(readIdx_)
    /\ dbh' = [dbh EXCEPT !.call = DbCall("commit", 0, 0), !.odd = ~@,
                          !.snap = <<buf_[WriteBufIdx]>>]
    /\ UNCHANGED <<writeIdx_, buf_, cpc, obs>>
    /\ UNCHANGED <<poolVars, extVars>>

\* commit() that also zero-fills the buffer that becomes the write side
CommitClear ==
    /\ readIdx_' = Xor1(readIdx_)
    /\ writeIdx_' = Xor1(writeIdx_)
    /\ buf_' = [buf_ EXCEPT ![ReadBufIdx] = [i \in 0 .. (BufN - 1) |-> 0]]
    /\ dbh' = [dbh EXCEPT !.call = DbCall("commit", 0, 0), !.odd = ~@,
                          !.snap = <<buf_[WriteBufIdx]>>]
    /\ UNCHANGED <<cpc, obs>>
    /\ UNCHANGED <<poolVars, extVars>>

\* commit() run to completion: readIdx_ ^= 1; writeIdx_ ^= 1;
Commit ==
    /\ readIdx_' = Xor1(readIdx_)
    /\ writeIdx_' = Xor1(writeIdx_)
    /\ dbh' = [dbh EXCEPT !.call = DbCall("commit", 0, 0), !.odd = ~@,
                          !.snap = <<buf_[WriteBufIdx]>>]
    /\ UNCHANGED <<buf_, cpc, obs>>
    /\ UNCHANGED <<poolVars, extVars>>

\* auto v = db.readBuf()[i]
ReadSample(i) ==
    /\ dbh' = [dbh EXCEPT !.call = DbCall("read", i, buf_[ReadBufIdx][i])]
    /\ UNCHANGED <<writeIdx_, readIdx_, buf_, cpc, obs>>
    /\ UNCHANGED <<poolVars, extVars>>

\* one thread using the buffer
NextDb ==
    \/ \E i \in Elems, v \in Samples : WriteSample(i, v)
    \/ Commit
    \/ \E i \in Elems : ReadSample(i)

SpecDb == Init /\ [][NextDb]_vars

\* ------------------------------- commit() beside a second thread --------
\* the indices are plain ints and commit() is two statements: a second
\* thread's calls fall before, between or after them

\* an index store between the observer's two calls is remembered
Disturb == IF obs.calls = 1 THEN [obs EXCEPT !.quiet = FALSE] ELSE obs

\* readIdx_ ^= 1;
CommitFlipRead ==
    /\ cpc = "idle"
    /\ readIdx_' = Xor1(readIdx_)
    /\ cpc' = "flippedRead"
    /\ obs' = Disturb
    /\ UNCHANGED <<writeIdx_, buf_, dbh>>
    /\ UNCHANGED <<poolVars, extVars>>

\* writeIdx_ ^= 1;
CommitFlipWrite ==
    /\ cpc = "flippedRead"
    /\ writeIdx_' = Xor1(writeIdx_)
    /\ cpc' = "idle"
    /\ obs' = Disturb
    /\ UNCHANGED <<readIdx_, buf_, dbh>>
    /\ UNCHANGED <<poolVars, extVars>>

\* the second thread calls writeBuf()
ObserveWriteBuf ==
    /\ obs.calls \in {0, 2}
    /\ obs' = [calls |-> 1, w |-> WriteBufIdx, r |-> 0, quiet |-> TRUE]
    /\ UNCHANGED <<writeIdx_, readIdx_, buf_, cpc, dbh>>
    /\ UNCHANGED <<poolVars, extVars>>

\* and then readBuf()
ObserveReadBuf ==
    /\ obs.calls = 1
    /\ obs' = [obs EXCEPT !.calls = 2, !.r = ReadBufIdx]
    /\ UNCHANGED <<writeIdx_, readIdx_, buf_, cpc, dbh>>
    /\ UNCHANGED <<poolVars, extVars>>

NextDbThreads ==
    \/ \E i \in Elems, v \in Samples : WriteSample(i, v)
    \/ CommitFlipRead
    \/ CommitFlipWrite
    \/ ObserveWriteBuf
    \/ ObserveReadBuf

SpecDbThreads == Init /\ [][NextDbThreads]_vars

\* ------------------- acquire()/release() from two threads, no lock ------
\* head_ and next_ are plain size_t: each load and each store of a
\* statement is a step of its own, and the other thread's steps fall between

\* thread t moves to pc with locals idx, tmp; a step from "idle" starts a
\* call; a step taken while the other thread is inside a call is an overlap
Goto(t, pc, idx, tmp) ==
    /\ thr' = [thr EXCEPT ![t] = [pc |-> pc, idx |-> idx, tmp |-> tmp]]
    /\ calls' = [calls EXCEPT ![t] = IF thr[t].pc = "idle" THEN @ + 1 ELSE @]
    /\ overlap' = (overlap \/ \E u \in Threads \ {t} : thr[u].pc # "idle")

\* what the threaded calls leave alone
ThreadFrame == UNCHANGED <<op, ret, rets, fresh, before, dbVars, stratVars, ph>>

\* the word loaded by next_[i]: for i = N it is the member after next_,
\* which is head_
NextAt(i) == IF i \in Slots THEN next_[i] ELSE head_

\* acquire(), line 19: if (head_ == N) return nullptr;
TAcqCheck(t) ==
    /\ thr[t].pc = "idle"
    /\ calls[t] < MaxCalls
    /\ IF head_ = N THEN Goto(t, "idle", 0, 0) ELSE Goto(t, "acqIdx", 0, 0)
    /\ UNCHANGED <<head_, next_, storage_, held>>
    /\ ThreadFrame

\* line 20: idx = head_;
TAcqIdx(t) ==
    /\ thr[t].pc = "acqIdx"
    /\ Goto(t, "acqLoad", head_, 0)
    /\ UNCHANGED <<head_, next_, storage_, held>>
    /\ ThreadFrame

\* line 21, the load: next_[idx]
TAcqLoad(t) ==
    /\ thr[t].pc = "acqLoad"
    /\ Goto(t, "acqStore", thr[t].idx, NextAt(thr[t].idx))
    /\ UNCHANGED <<head_, next_, storage_, held>>
    /\ ThreadFrame

\* line 21, the store: head_ = ...
TAcqStore(t) ==
    /\ thr[t].pc = "acqStore"
    /\ head_' = thr[t].tmp
    /\ Goto(t, "acqNew", thr[t].idx, 0)
    /\ UNCHANGED <<next_, storage_, held>>
    /\ ThreadFrame

\* lines 22-23: e = new(&storage_[idx]) Event{}; return e;
TAcqNew(t) ==
    /\ thr[t].pc = "acqNew"
    /\ IF thr[t].idx \in Slots
       THEN /\ storage_' = [storage_ EXCEPT ![thr[t].idx] = <<DefaultEvent>>]
            /\ held' = [held EXCEPT ![thr[t].idx] = @ + 1]
       ELSE UNCHANGED <<storage_, held>>
    /\ Goto(t, "idle", 0, 0)
    /\ UNCHANGED <<head_, next_>>
    /\ ThreadFrame

\* release(e) of a live handle, line 26: idx = e - storage_ (the caller
\* gives the handle up); line 27 destroys nothing
TRelIdx(t, idx) ==
    /\ thr[t].pc = "idle"
    /\ calls[t] < MaxCalls
    /\ held[idx] > 0
    /\ held' = [held EXCEPT ![idx] = @ - 1]
    /\ Goto(t, "relLoad", idx, 0)
    /\ UNCHANGED <<head_, next_, storage_>>
    /\ ThreadFrame

\* line 28, the load: head_
TRelLoad(t) ==
    /\ thr[t].pc = "relLoad"
    /\ Goto(t, "relLink", thr[t].idx, head_)
    /\ UNCHANGED <<head_, next_, storage_, held>>
    /\ ThreadFrame

\* release() that skips the store into next_
TRelLinkSkipped(t) ==
    /\ thr[t].pc = "relLink"
    /\ Goto(t, "relHead", thr[t].idx, 0)
    /\ UNCHANGED <<head_, next_, storage_, held>>
    /\ ThreadFrame

\* line 28, the store: next_[idx] = ...
TRelLink(t) ==
    /\ thr[t].pc = "relLink"
    /\ next_' = [next_ EXCEPT ![thr[t].idx] = thr[t].tmp]
    /\ Goto(t, "relHead", thr[t].idx, 0)
    /\ UNCHANGED <<head_, storage_, held>>
    /\ ThreadFrame

\* line 29: head_ = idx;
TRelHead(t) ==
    /\ thr[t].pc = "relHead"
    /\ head_' = thr[t].idx
    /\ Goto(t, "idle", 0, 0)
    /\ UNCHANGED <<next_, storage_, held>>
    /\ ThreadFrame

NextThreads ==
    \E t \in Threads :
        \/ TAcqCheck(t)
        \/ TAcqIdx(t)
        \/ TAcqLoad(t)
        \/ TAcqStore(t)
        \/ TAcqNew(t)
        \/ \E idx \in Slots : TRelIdx(t, idx)
        \/ TRelLoad(t)
        \/ TRelLink(t)
        \/ TRelHead(t)

SpecThreads == Init /\ [][NextThreads]_vars

\* --------------------- producer and consumer with a phase barrier -------
\* commit() whose second statement is missing
CommitBodyHalf ==
    /\ readIdx_' = Xor1(readIdx_)
    /\ UNCHANGED writeIdx_

\* the two statements of commit(): readIdx_ ^= 1; writeIdx_ ^= 1;
CommitBody ==
    /\ readIdx_' = Xor1(readIdx_)
    /\ writeIdx_' = Xor1(writeIdx_)

\* the producer stores the next element of its frame through the pointer
\* writeBuf() gave it at the start of the phase
ProducerWrite(v) ==
    /\ ph.pn < BufN
    /\ buf_' = [buf_ EXCEPT ![ph.pw][ph.pn] = v]
    /\ ph' = [ph EXCEPT !.pn = @ + 1]
    /\ UNCHANGED <<writeIdx_, readIdx_, cpc, obs, dbh>>
    /\ UNCHANGED <<poolVars, stratVars, threadVars>>

\* the consumer loads the next element through the pointer readBuf() gave
\* it at the start of the phase
ConsumerRead ==
    /\ ph.cn < BufN
    /\ ph' = [ph EXCEPT !.cn = @ + 1,
                        !.got = Append(@, buf_[ph.cr][ph.cn]),
                        !.clash = @ \/ ph.cr = ph.pw]
    /\ UNCHANGED <<writeIdx_, readIdx_, buf_, cpc, obs, dbh>>
    /\ UNCHANGED <<poolVars, stratVars, threadVars>>

\* the phase barrier: both are done with their buffers; commit() runs with
\* neither of them active, and each fetches its view again
PhaseBarrier ==
    /\ ph.pn = BufN
    /\ ph.cn = BufN
    /\ CommitBody
    /\ ph' = [pw |-> writeIdx_', cr |-> readIdx_', pn |-> 0, cn |-> 0,
              got |-> <<>>, prev |-> <<buf_[ph.pw]>>, clash |-> ph.clash]
    /\ UNCHANGED <<buf_, cpc, obs, dbh>>
    /\ UNCHANGED <<poolVars, stratVars, threadVars>>

NextDbPhased ==
    \/ \E v \in Samples : ProducerWrite(v)
    \/ ConsumerRead
    \/ PhaseBarrier

SpecDbPhased == Init /\ [][NextDbPhased]_vars

\* =============================================================== claims ==

\* C1: on a fresh pool, N+1 acquire() calls with no release in between
\* return a handle on each of the first N calls, to N pairwise distinct
\* slots, and nullptr on call N+1.
C1_Capacity ==
    \A k \in 1 .. Len(rets) :
        /\ k <= N => /\ rets[k] # NullPtr
                     /\ \A j \in 1 .. (k - 1) : rets[j] # rets[k]
        /\ k = N + 1 => rets[k] = NullPtr

\* the (N+1)th acquire() of a fresh pool has returned
C1_Witness == fresh /\ Len(rets) = N + 1

\* C2: under valid use the free list and the live slots are disjoint and
\* together are exactly the slots 0..N-1.
C2_Complementary ==
    /\ FreeSet \cap LiveSet = {}
    /\ FreeSet \cup LiveSet = Slots

\* after interleaved calls: a release left the free list out of ascending
\* order while another handle is still live
C2_Witness ==
    /\ op = "release"
    /\ LiveSet # {}
    /\ Len(FreeList) >= 2
    /\ FreeList[1] > FreeList[2]

\* C3: under valid use no slot has two outstanding handles: acquire() never
\* hands out a slot that is live.
C3_OneHolder == \A i \in Slots : held[i] <= 1

\* acquire() handed out a released slot while another slot is live
C3_Witness ==
    /\ op = "acquire"
    /\ ret # NullPtr
    /\ ~fresh
    /\ Cardinality(LiveSet) >= 2

\* C4: under valid use, following next_ from head_ visits every slot on the
\* free list once, stays inside 0..N-1 and ends at the sentinel N; head_ is
\* in 0..N.
C4_WellFormed ==
    /\ head_ \in 0 .. N
    /\ Len(FreeList) <= N
    /\ \A j, k \in 1 .. Len(FreeList) : j # k => FreeList[j] # FreeList[k]
    /\ WalkEnd(head_, N + 1) = N

\* a free list rebuilt by releases, in an order the constructor never made
C4_Witness ==
    /\ ~fresh
    /\ Len(FreeList) = N
    /\ FreeList[1] = N - 1

\* C5: release() of a handle that is not live (released before, or outside
\* the slots) is rejected: it leaves head_ and next_ alone, so the
\* free list stays well formed and no slot gets a second holder.
C5_NotLiveReleaseRejected ==
    /\ [][(op' = "release" /\ ret'[1] \notin LiveSet)
            => UNCHANGED <<head_, next_>>]_vars
    /\ [](C4_WellFormed /\ C3_OneHolder)

\* C6: acquire() on an exhausted pool returns nullptr and changes nothing
\* of the pool; after a release the pool is not exhausted, and acquire() on
\* a pool that is not exhausted returns a handle.
C6_ExhaustionRecoverable ==
    /\ [][(op' = "acquire" /\ head_ = N)
            => (ret' = NullPtr /\ UNCHANGED <<head_, next_, storage_, held>>)]_vars
    /\ [](op = "release" => head_ # N)
    /\ [][(op' = "acquire" /\ head_ # N) => ret' # NullPtr]_vars

\* an acquire() on the exhausted pool has returned nullptr after a release
\* had once freed a slot
C6_Witness ==
    /\ op = "acquire"
    /\ ret = NullPtr
    /\ head_ = N
    /\ ~fresh

\* C7: release(h) of a live handle links h's slot in front of the old head
\* (next_[idx] = old head_, head_ = idx), and an acquire() right after it
\* returns that slot.
C7_LifoReuse ==
    /\ [][op' = "release"
            => (head_' = ret'[1] /\ next_'[ret'[1]] = head_)]_vars
    /\ [][(op = "release" /\ op' = "acquire") => ret' = ret]_vars

\* a release on the exhausted pool: the freed slot is the whole free list
C7_Witness ==
    /\ op = "release"
    /\ FreeList = <<ret[1]>>
    /\ Cardinality(LiveSet) = N - 1

\* C8: the Event a successful acquire() hands out is default-initialized
\* (ts = 0, type = 0, payload = 0), whatever the slot held before.
C8_FreshEvent ==
    (op = "acquire" /\ ret # NullPtr) => storage_[ret[1]] = <<DefaultEvent>>

\* acquire() handed out a slot whose previous holder had left type = 1
C8_Witness ==
    /\ op = "acquire"
    /\ ret # NullPtr
    /\ before # <<>>
    /\ before[1].type = 1
    /\ storage_[ret[1]][1].type = 0

\* C9: after any number of commit() calls writeIdx_ and readIdx_ are both in
\* {0,1} and differ, so writeBuf() and readBuf() return different buffers.
C9_RolesComplementary ==
    /\ writeIdx_ \in {0, 1}
    /\ readIdx_ \in {0, 1}
    /\ writeIdx_ # readIdx_
    /\ WriteBufIdx # ReadBufIdx

\* the roles after an odd number of commits, with a sample in the read buffer
C9_Witness ==
    /\ writeIdx_ = 1
    /\ readIdx_ = 0
    /\ buf_[ReadBufIdx][0] # 0

\* C10: commit() swaps both indices in one atomic step: a second thread that
\* calls writeBuf() and readBuf() while commit() executes, with no index
\* store between its two calls, is never given the same buffer twice.
C10_NoIntermediateState ==
    (obs.calls = 2 /\ obs.quiet) => obs.w # obs.r

\* C11: a new DoubleBuffer has write = buffer 0, read = buffer 1; after an
\* odd number of commits write = buffer 1, read = buffer 0; after an even
\* number the roles are the initial ones again (commit is an involution).
C11_Alternation ==
    /\ ~dbh.odd => (WriteBufIdx = 0 /\ ReadBufIdx = 1)
    /\ dbh.odd => (WriteBufIdx = 1 /\ ReadBufIdx = 0)
    /\ Xor1(Xor1(writeIdx_)) = writeIdx_
    /\ Xor1(Xor1(readIdx_)) = readIdx_

\* an even number of commits, at least two, has just been completed
C11_Witness ==
    /\ dbh.call.op = "commit"
    /\ ~dbh.odd
    /\ dbh.snap # <<>>

\* C12: writeBuf()[i] = x stores x in element i of the write buffer, and
\* commit() makes every element of the write buffer, as it was before the
\* commit, the element readBuf() gives right after it.
C12_Visibility ==
    /\ [][dbh'.call.op = "write"
            => buf_'[writeIdx_'][dbh'.call.i] = dbh'.call.v]_vars
    /\ [][dbh'.call.op = "commit"
            => \A i \in Elems : buf_'[readIdx_'][i] = buf_[writeIdx_][i]]_vars
    /\ [][dbh'.call.op = "read"
            => dbh'.call.v = buf_[readIdx_][dbh'.call.i]]_vars

\* readBuf()[i] has returned a sample that was written and committed
C12_Witness ==
    /\ dbh.call.op = "read"
    /\ dbh.call.v = MaxSample

\* C13: commit() changes no element of buf_[0] or buf_[1]; the new write
\* buffer holds what the read buffer held before the commit.
C13_CommitKeepsContents ==
    [][dbh'.call.op = "commit"
        => (buf_' = buf_ /\ buf_'[writeIdx_'] = buf_[readIdx_])]_vars

\* after a commit the new write buffer still holds an earlier frame
C13_Witness ==
    /\ dbh.call.op = "commit"
    /\ \E i \in Elems : buf_[WriteBufIdx][i] # 0

\* C14: once a commit has happened, the read buffer holds what the write
\* buffer held at the most recent commit; stores through writeBuf() after
\* that commit do not change it.
C14_ReadViewIsLastCommit ==
    dbh.snap # <<>> => buf_[ReadBufIdx] = dbh.snap[1]

\* a store after the commit made the write buffer differ from the read view
C14_Witness ==
    /\ dbh.call.op = "write"
    /\ dbh.snap # <<>>
    /\ dbh.call.v # buf_[ReadBufIdx][dbh.call.i]
    /\ \E i \in Elems : dbh.snap[1][i] # 0

\* C19: an element never stored through writeBuf() is 0 in either buffer,
\* and readBuf()[i] before the first commit returns 0.
C19_ZeroInitialized ==
    /\ \A b \in 0 .. 1, i \in Elems :
          <<b, i>> \notin dbh.written => buf_[b][i] = 0
    /\ (dbh.call.op = "read" /\ dbh.snap = <<>>) => dbh.call.v = 0

\* readBuf()[i] was called before any commit, after a store through writeBuf()
C19_Witness ==
    /\ dbh.call.op = "read"
    /\ dbh.snap = <<>>
    /\ dbh.written # {}
    /\ dbh.call.v = 0

\* C15: Ctx::run(v) returns v+1 while s is an Inc and v*2 while s is a
\* DoubleS; assigning s changes the result of later runs and of no earlier
\* one.
C15_RunUsesCurrentStrategy ==
    /\ [](\A k \in 1 .. Len(runs) :
            /\ runs[k].s = "Inc" => runs[k].out = runs[k].v + 1
            /\ runs[k].s = "DoubleS" => runs[k].out = runs[k].v * 2)
    /\ [][\A k \in 1 .. Len(runs) : runs'[k] = runs[k]]_vars
    /\ [][Len(runs') > Len(runs) => runs'[Len(runs')].s = s]_vars

\* the test's two runs: the same argument under Inc, then under DoubleS
C15_Witness ==
    /\ Len(runs) >= 2
    /\ runs[1] = [s |-> "Inc", v |-> 2, out |-> 3]
    /\ runs[2] = [s |-> "DoubleS", v |-> 2, out |-> 4]

\* C16: with commit() called only at the phase barrier, the consumer never
\* reads the buffer the producer writes in the same phase, and what it
\* reads in a phase is the frame the producer completed in the phase before.
C16_PhasedFrames ==
    /\ ph.pw # ph.cr
    /\ ~ph.clash
    /\ ph.prev # <<>> =>
          \A k \in 1 .. Len(ph.got) : ph.got[k] = ph.prev[1][k - 1]

\* the consumer has read a whole frame with a sample in it while the
\* producer was storing a different frame
C16_Witness ==
    /\ ph.prev # <<>>
    /\ ph.cn = BufN
    /\ ph.got[1] = MaxSample
    /\ ph.pn > 0
    /\ buf_[ph.pw][0] # ph.got[1]

\* every thread is outside acquire() and release()
AllIdle == \A t \in Threads : thr[t].pc = "idle"

\* C17: two threads calling acquire()/release() with no lock can reach a
\* state where one slot has two holders (witness).  The damage needs the
\* interleaving: as long as no statement of one thread ran inside a call
\* of the other, the pool between calls is as under single-threaded use.
C17_OnlyOverlapCorrupts ==
    (~overlap /\ AllIdle) =>
        (C2_Complementary /\ C3_OneHolder /\ C4_WellFormed)

\* both threads have returned and one slot was handed to two holders
C17_Witness ==
    /\ AllIdle
    /\ overlap
    /\ \E i \in Slots : held[i] >= 2

\* both threads have returned and a free slot is on no list and in no hand
C17_LostSlot ==
    /\ AllIdle
    /\ overlap
    /\ C3_OneHolder
    /\ FreeSet \cup LiveSet # Slots

\* C18: acquire() changes the stored Event of the slot it pops only and no
\* next_ entry; release(h) changes no stored Event and only next_[idx of h];
\* a store through a handle changes that handle's slot only.
C18_Frame ==
    /\ [][op' = "acquire" =>
            /\ next_' = next_
            /\ \A i \in Slots : ret' # Handle(i) => storage_'[i] = storage_[i]]_vars
    /\ [][op' = "release" =>
            /\ storage_' = storage_
            /\ \A i \in Slots : ret' # Handle(i) => next_'[i] = next_[i]]_vars
    /\ [][op' = "write" =>
            /\ next_' = next_ /\ head_' = head_
            /\ \A i \in Slots : ret' # Handle(i) => storage_'[i] = storage_[i]]_vars

\* a release happened while another live slot holds type = 1
C18_Witness ==
    /\ op = "release"
    /\ \E i \in LiveSet : i # ret[1] /\ storage_[i][1].type = 1

\* C20: for every pool size n >= 1 (n = 1 included) the constructor leaves
\* head_ = 0 and next_[i] = i+1 for every slot, and a fresh pool hands out
\* the slots 0, 1, ..., N-1 in this order.
C20_CtorAscending ==
    /\ op = "ctor" => (head_ = 0 /\ \A i \in Slots : next_[i] = i + 1)
    /\ \A k \in 1 .. Len(rets) : k <= N => rets[k] = Handle(k - 1)
    /\ \A n \in 1 .. N : \A g \in 0 .. n :
          CtorLoop(n, g) = [i \in 0 .. (n - 1) |-> i + 1]
    /\ \A g \in 0 .. N : op = "ctor" => next_ = CtorLoop(N, g)

\* a fresh pool has handed out its last slot, N-1, on the Nth call
C20_Witness ==
    /\ fresh
    /\ Len(rets) = N
    /\ rets[N] = Handle(N - 1)
    /\ head_ = N

====
